---- MODULE Spec2Model ----
\* PeerTalk temperature sender (raspberry-pi/peertalk_temp_sender.py):
\* the SMTCReader channel readers, the sampler read_temperature_data, the
\* frame encoder send_peertalk_frame, connect_to_ipad and the supervisor
\* loop of main(), with the interpreter's KeyboardInterrupt delivery.
\*
\* Numbers: temperatures are Python floats; the model keeps the readings
\* whose value is integral (hardware readings that are multiples of 5
\* degrees C, the end points of random.uniform), so a reading is an
\* integer and float repr is "<digits>.0".  Console output (print) is
\* assumed not to fail.
EXTENDS Integers, Sequences, FiniteSets, TLC

\* ---------------------------------------------------------------- bounds
\* most get_temp calls that raise in one sweep
MaxFaults == 1
\* most frames attempted on one Connection
MaxFrames == 2
\* most sockets created by connect_to_ipad in one run
MaxAttempts == 3
\* most KeyboardInterrupts delivered in one run
MaxInterrupts == 1
\* bytes payloads handed to send_peertalk_frame have at most this length
MaxPayload == 3
\* probe indices tried by direct reader calls: -MaxProbeArg .. 5 + MaxProbeArg
MaxProbeArg == 2
\* most set_sensor_type calls that raise in one construction
MaxCfgFaults == 2

\* ------------------------------------------------------- program constants
IPAD_PORT == 2345
FRAME_TYPE_TEMPERATURE == 100
PTPROTOCOL_VERSION == 1
thermocouple_type == 3
egt_channel_map == <<1, 2, 3, 4, 7, 8>>
cht_channel_map == <<1, 2, 3, 4, 7, 8>>
\* range(6) in read_temperature_data
NumProbes == 6

Families == {"cht", "egt"}

\* ------------------------------------------------------ the sensor driver
\* What the sm_tc boards answer during one sweep: get_temp(channel) raises
\* for the (family, channel) pairs in fail and returns temp_c otherwise;
\* r is the draw of random.random() behind random.uniform (0 or 1).
\* (temp_c, r) of a sweep: a cool draw and a hot one
Draws == {[temp_c |-> 0, r |-> 0], [temp_c |-> 100, r |-> 1]}
\* the channels the probes are mapped to
FaultChannels == {cht_channel_map[i] : i \in DOMAIN cht_channel_map}
FaultSets ==
    {F \in SUBSET (Families \X FaultChannels) : Cardinality(F) <= MaxFaults}
Envs == {[fail |-> F, temp_c |-> d.temp_c, r |-> d.r] : F \in FaultSets, d \in Draws}

\* random.uniform(a, b) == a + (b - a) * random()
uniform(a, b, r) == a + (b - a) * r

\* (temp_c * 9/5) + 32 on a multiple of 5
CtoF(temp_c) == (temp_c * 9) \div 5 + 32

\* A call's outcome: the value returned, or an exception raised; calls
\* lists the get_temp channels the call asked the hardware for.
Returned(v, calls) == [raised |-> FALSE, val |-> v, calls |-> calls]
Raised(calls) == [raised |-> TRUE, val |-> 0, calls |-> calls]

\* sensor.get_temp(channel) followed by the conversion (lines 82-84, 101-103)
get_temp_f(fam, channel, env) ==
    IF <<fam, channel>> \in env.fail
    THEN Raised(<<channel>>)
    ELSE Returned(CtoF(env.temp_c), <<channel>>)

cht_try_shared(self, probe_id, env) ==
    IF self.hardware_available
    THEN IF probe_id < 0 \/ probe_id >= Len(cht_channel_map)
         THEN Returned(0, <<>>)
         ELSE get_temp_f("cht", cht_channel_map[probe_id + 1], env)
    ELSE Returned(300 + uniform(0, 100, env.r), <<>>)
\* the try body of read_cht_probe (lines 77-88)
cht_try(self, probe_id, env) ==
    IF self.cht_sensor
    THEN IF probe_id < 0 \/ probe_id >= Len(cht_channel_map)
         THEN Returned(0, <<>>)
         ELSE get_temp_f("cht", cht_channel_map[probe_id + 1], env)
    ELSE Returned(300 + uniform(0, 100, env.r), <<>>)

\* the try body of read_egt_probe (lines 96-107)
egt_try(self, probe_id, env) ==
    IF self.egt_sensor
    THEN IF probe_id < 0 \/ probe_id >= Len(egt_channel_map)
         THEN Returned(0, <<>>)
         ELSE get_temp_f("egt", egt_channel_map[probe_id + 1], env)
    ELSE Returned(1200 + uniform(0, 300, env.r), <<>>)

\* except Exception: print, return 0.0 (lines 89-91, 108-110)
except_return_zero(res) ==
    IF res.raised THEN Returned(0, res.calls) ELSE res

NoHandler_cht(self, probe_id, env) == cht_try(self, probe_id, env)
read_cht_probe(self, probe_id, env) ==
    except_return_zero(cht_try(self, probe_id, env))

read_egt_probe(self, probe_id, env) ==
    except_return_zero(egt_try(self, probe_id, env))

read_probe(fam, self, probe_id, env) ==
    IF fam = "cht" THEN read_cht_probe(self, probe_id, env)
                   ELSE read_egt_probe(self, probe_id, env)

\* ------------------------------------------------------------ the sampler
\* for probe_id in range(n): temp = read_x_probe(probe_id); temps.append(temp)
\* An exception leaving a reader ends the loop and the sweep: the probes
\* before it (done) were read, the rest are not.
probe_loop(fam, self, env, n) ==
    LET res == [i \in 1..n |-> read_probe(fam, self, i - 1, env)]
        bad == {i \in 1..n : res[i].raised}
        done == IF bad = {} THEN n
                ELSE (CHOOSE i \in bad : \A j \in bad : i <= j) - 1
        tried == IF bad = {} THEN n ELSE done + 1
    IN [raised |-> bad # {},
        temps |-> [i \in 1..done |-> res[i].val],
        trace |-> [i \in 1..tried |-> <<fam, i - 1>>],
        called |-> UNION {{<<fam, res[i].calls[k]>> : k \in DOMAIN res[i].calls} :
                              i \in 1..tried}]

Range5 == NumProbes - 1
probe_range == NumProbes

\* read_temperature_data(): the snapshot, the order of the calls it made
\* (trace: the probe reads and the call of time.time()), and whether an
\* exception left it.
read_temperature_data(self, env, now) ==
    LET c == probe_loop("cht", self, env, probe_range)
        e == probe_loop("egt", self, env, probe_range)
    IN IF c.raised
       THEN [raised |-> TRUE, data |-> [cht |-> c.temps, egt |-> <<>>,
                 timestamp |-> 0, unit |-> "F"], trace |-> c.trace,
             called |-> c.called]
       ELSE IF e.raised
       THEN [raised |-> TRUE, data |-> [cht |-> c.temps, egt |-> e.temps,
                 timestamp |-> 0, unit |-> "F"], trace |-> c.trace \o e.trace,
             called |-> c.called \cup e.called]
       ELSE [raised |-> FALSE,
             data |-> [cht |-> c.temps, egt |-> e.temps,
                       timestamp |-> now, unit |-> "F"],
             trace |-> c.trace \o e.trace \o << <<"time", 0>> >>,
             called |-> c.called \cup e.called]

\* -------------------------------------------------------- the frame codec
\* decimal digits of a natural number, as ASCII
RECURSIVE Dec(_)
Dec(n) == IF n < 10 THEN <<48 + n>> ELSE Dec(n \div 10) \o <<48 + (n % 10)>>

\* float.__repr__ of an integral float: "-12.0"
float_repr(v) ==
    (IF v < 0 THEN <<45>> ELSE <<>>) \o Dec(IF v < 0 THEN -v ELSE v) \o <<46, 48>>

\* json's list of floats: items joined by ", "
RECURSIVE json_items(_)
json_items(xs) ==
    IF xs = <<>> THEN <<>>
    ELSE IF Len(xs) = 1 THEN float_repr(xs[1])
    ELSE float_repr(xs[1]) \o <<44, 32>> \o json_items(Tail(xs))

\* json.dumps(snapshot).encode('utf-8'):
\* {"cht": [...], "egt": [...], "timestamp": t, "unit": "F"}
json_dumps(d) ==
    <<123, 34, 99, 104, 116, 34, 58, 32, 91>> \o json_items(d.cht)
    \o <<93, 44, 32, 34, 101, 103, 116, 34, 58, 32, 91>> \o json_items(d.egt)
    \o <<93, 44, 32, 34, 116, 105, 109, 101, 115, 116, 97, 109, 112, 34, 58, 32>>
    \o float_repr(d.timestamp)
    \o <<44, 32, 34, 117, 110, 105, 116, 34, 58, 32, 34, 70, 34, 125>>

\* struct.pack('>I', n): four bytes, most significant first
BE32(n) ==
    <<(n \div 16777216) % 256, (n \div 65536) % 256, (n \div 256) % 256, n % 256>>
LE32(n) ==
    <<n % 256, (n \div 256) % 256, (n \div 65536) % 256, (n \div 16777216) % 256>>
pack_I(n) == BE32(n)

\* struct.pack raises struct.error outside 0 .. 2^32 - 1 (the upper end is
\* beyond the integers of the model: no modelled value reaches it)
packable(n) == n >= 0

\* payload_bytes: a dict is serialised, bytes are taken as they are
payload_bytes_of(payload_data) ==
    IF payload_data.isdict THEN json_dumps(payload_data.dict)
                           ELSE payload_data.bytes

\* struct.pack('>IIII', PTPROTOCOL_VERSION, frame_type, 0, len(payload_bytes))
frame_header(frame_type, payload_bytes) ==
    pack_I(PTPROTOCOL_VERSION) \o pack_I(frame_type) \o pack_I(0)
    \o pack_I(Len(payload_bytes))

\* What send_peertalk_frame hands to sock.sendall, or nothing when
\* struct.pack raises (caught: return False).
frame_bytes(frame_type, payload_data) ==
    LET payload_bytes == payload_bytes_of(payload_data)
    IN IF packable(frame_type)
       THEN [ok |-> TRUE,
             data |-> frame_header(frame_type, payload_bytes) \o payload_bytes]
       ELSE [ok |-> FALSE, data |-> <<>>]

DictPayload(d) == [isdict |-> TRUE, dict |-> d, bytes |-> <<>>]
BytesPayload(b) ==
    [isdict |-> FALSE, bytes |-> b,
     dict |-> [cht |-> <<>>, egt |-> <<>>, timestamp |-> 0, unit |-> "F"]]

\* sock.sendall(data) under io: all of data reaches the socket, or the call
\* raises after io.n bytes did
sendall(data, io) ==
    IF io.fail
    THEN [raised |-> TRUE,
          delivered |-> SubSeq(data, 1, IF io.n < Len(data) THEN io.n ELSE Len(data))]
    ELSE [raised |-> FALSE, delivered |-> data]

\* send_peertalk_frame(sock, frame_type, payload_data): what it returns, what
\* it handed to sendall (called: whether it got that far) and what reached
\* the socket.  except Exception: return False.
send_peertalk_frame(frame_type, payload_data, io) ==
    LET f == frame_bytes(frame_type, payload_data)
        w == sendall(f.data, io)
    IN IF ~f.ok
       THEN [ret |-> FALSE, called |-> FALSE, handed |-> <<>>, delivered |-> <<>>]
       ELSE [ret |-> ~w.raised, called |-> TRUE, handed |-> f.data,
             delivered |-> w.delivered]

\* ------------------------------------------------------------------ state
VARIABLES
    sensor_reader,  \* the SMTCReader singleton: which handles exist
    pc,             \* where main() stands
    sock,           \* main's sock: a socket id, 0 for None / unbound
    openSocks,      \* ids of the sockets that are open
    attempts,       \* calls of connect_to_ipad so far (= sockets created)
    frame_num,      \* main's frame_num
    temp_data,      \* main's temp_data
    lastWrite,      \* the latest sendall: socket, bytes handed, bytes delivered
    lastSweep,      \* the latest sweep: get_temp faults, order of calls, channels asked
    lastLog,        \* the latest line main printed
    hist,           \* counters of what happened (observation only); slept:
                    \* a time.sleep returned since the latest connect_to_ipad
    exitHow,        \* "running", "sys_exit_0" or "uncaught_KeyboardInterrupt"
    call            \* the latest direct call of a reader or of the encoder

vars == <<sensor_reader, pc, sock, openSocks, attempts, frame_num, temp_data,
          lastWrite, lastSweep, lastLog, hist, exitHow, call>>

mainVars == <<pc, sock, openSocks, attempts, frame_num, temp_data,
              lastWrite, lastSweep, lastLog, hist, exitHow>>

NoData == [cht |-> <<>>, egt |-> <<>>, timestamp |-> 0, unit |-> ""]
NoWrite == [sock |-> 0, handed |-> <<>>, delivered |-> <<>>]
NoSweep == [fail |-> {}, trace |-> <<>>, called |-> {}]
NoCall == [fn |-> "none"]

\* SMTCReader.__init__: each handle is constructed or left None;
\* hardware_available = egt_sensor is not None or cht_sensor is not None
SMTCReader_init(egt_ok, cht_ok) ==
    [egt_sensor |-> egt_ok, cht_sensor |-> cht_ok,
     hardware_available |-> (egt_ok \/ cht_ok)]

\* for channel in range(1, 9) (line 59)
ConfigChannels == 1..8

\* which set_sensor_type calls raise: at most MaxCfgFaults (handle, channel)
\* pairs
CfgFaultSets ==
    {f \in SUBSET (Families \X ConfigChannels) : Cardinality(f) <= MaxCfgFaults}

\* One pass of the configuration loop's try (lines 60-66): the EGT call,
\* then the CHT call, each only if its handle exists; the first call that
\* raises ends the try body and the except prints the channel.
configure_channel(self, channel, cfg) ==
    LET egt_raises == self.egt_sensor /\ <<"egt", channel>> \in cfg
        cht_reached == self.cht_sensor /\ ~egt_raises
    IN [attempted |-> (IF self.egt_sensor THEN {<<"egt", channel>>} ELSE {})
                      \cup (IF cht_reached THEN {<<"cht", channel>>} ELSE {}),
        logged |-> egt_raises \/ (cht_reached /\ <<"cht", channel>> \in cfg)]

\* The rest of SMTCReader.__init__ after line 55 (lines 57-72): the loop
\* over the channels if hardware_available, then the summary lines.
configure_all(self, cfg) ==
    IF self.hardware_available
    THEN [attempted |-> UNION {configure_channel(self, ch, cfg).attempted :
                                  ch \in ConfigChannels},
          logged |-> {ch \in ConfigChannels : configure_channel(self, ch, cfg).logged},
          returned |-> TRUE,
          log |-> "All channels configured for K-type thermocouples"]
    ELSE [attempted |-> {}, logged |-> {}, returned |-> TRUE,
          log |-> "No SMtc HATs detected - using simulation mode"]

Init ==
    /\ \E egt_ok \in BOOLEAN, cht_ok \in BOOLEAN :
           sensor_reader = SMTCReader_init(egt_ok, cht_ok)
    /\ pc = "connect"
    /\ sock = 0
    /\ openSocks = {}
    /\ attempts = 0
    /\ frame_num = 0
    /\ temp_data = NoData
    /\ lastWrite = NoWrite
    /\ lastSweep = NoSweep
    /\ lastLog = [msg |-> "Connecting to iPad...", n |-> 0, status |-> ""]
    /\ hist = [failLogged |-> 0, retrySleeps |-> 0, fatalSleeps |-> 0,
               connected |-> 0, confirmed |-> 0, written |-> 0,
               writeFailed |-> FALSE, sleepIntr |-> FALSE, intrs |-> 0,
               fatal |-> 0, slept |-> FALSE]
    /\ exitHow = "running"
    /\ call = NoCall

\* --------------------------------------------- the constructor's second half
\* SMTCReader() on a machine whose handles are those of sensor_reader: the
\* configuration of the channels under every choice of failing calls
ConstructorCall ==
    /\ call = NoCall
    /\ \E cfg \in CfgFaultSets :
           call' = [fn |-> "__init__", cfg |-> cfg,
                    res |-> configure_all(sensor_reader, cfg)]
    /\ UNCHANGED <<sensor_reader, mainVars>>

SpecConstructor == Init /\ [][ConstructorCall]_vars

\* ------------------------------------------------- direct calls (readers)
ProbeArgs == (0 - MaxProbeArg)..(NumProbes - 1 + MaxProbeArg)

\* sensor_reader.read_cht_probe(probe_id) / read_egt_probe(probe_id) with
\* any integer probe_id
ReaderCall ==
    /\ call = NoCall
    /\ \E fam \in Families, probe_id \in ProbeArgs, env \in Envs :
           call' = [fn |-> fam, probe_id |-> probe_id, env |-> env,
                    res |-> read_probe(fam, sensor_reader, probe_id, env)]
    /\ UNCHANGED <<sensor_reader, mainVars>>

SpecReader == Init /\ [][ReaderCall]_vars

\* ------------------------------------------------- direct calls (encoder)
FrameTypes == {-1, 0, FRAME_TYPE_TEMPERATURE, 16777473}
ByteValues == {0, 255}
RECURSIVE BytesUpTo(_)
BytesUpTo(n) ==
    IF n = 0 THEN {<<>>}
    ELSE BytesUpTo(n - 1)
         \cup {Append(b, x) : b \in {c \in BytesUpTo(n - 1) : Len(c) = n - 1},
                              x \in ByteValues}
\* a payload whose length needs two bytes of the size field
LargeLen == 300
Payloads ==
    {BytesPayload(b) : b \in BytesUpTo(MaxPayload)}
    \cup {BytesPayload([i \in 1..LargeLen |-> 65])}
    \cup {DictPayload(read_temperature_data(sensor_reader, env, 0).data) :
              env \in {e \in Envs : e.fail = {}}}
\* how a sendall may go: through, or failing after 0 or 20 bytes
SendOutcomes ==
    {[fail |-> FALSE, n |-> 0]} \cup [fail : {TRUE}, n : {0, 20}]

EncoderCall ==
    /\ call = NoCall
    /\ \E frame_type \in FrameTypes, payload_data \in Payloads, io \in SendOutcomes :
           call' = [fn |-> "send_peertalk_frame", frame_type |-> frame_type,
                    payload_bytes |-> payload_bytes_of(payload_data),
                    res |-> send_peertalk_frame(frame_type, payload_data, io)]
    /\ UNCHANGED <<sensor_reader, mainVars>>

SpecCodec == Init /\ [][EncoderCall]_vars

\* ------------------------------------------------------------- the main loop
\* pc: "connect"      line 202, sock = connect_to_ipad()
\*     "retry_sleep"  lines 205-207, time.sleep(5); continue
\*     "start"        lines 209-212, frame_num = 0
\*     "cycle"        lines 216-228, sample, count, send, report
\*     "frame_sleep"  line 230, time.sleep(1)
\*     "close"        lines 239-240, sock.close()
\*     "fatal_sleep"  lines 246-247, time.sleep(5) in the outer handler
\*     "exited"       the process has ended
InnerTry == {"cycle", "frame_sleep"}
OuterTry == {"connect", "retry_sleep", "start", "close"}

Log(msg, n, status) == [msg |-> msg, n |-> n, status |-> status]

\* except KeyboardInterrupt of the streaming loop: print, break (232-234)
inner_KeyboardInterrupt == [pc |-> "close", exit |-> "running"]
\* except Exception of the streaming loop: print, break (235-237)
inner_Exception == [pc |-> "close", exit |-> "running"]
\* except KeyboardInterrupt of the supervisor loop: sys.exit(0) (242-244)
outer_KeyboardInterrupt == [pc |-> "exited", exit |-> "sys_exit_0"]
\* except Exception of the supervisor loop: print, time.sleep(5) (245-247)
ExitOnFatal == [pc |-> "exited", exit |-> "uncaught_Exception"]
outer_Exception == [pc |-> "fatal_sleep", exit |-> "running"]

\* Where a KeyboardInterrupt raised at p takes main(): to the handler of the
\* innermost try whose body holds p; raised inside a handler (the sleep of
\* line 247) it leaves main() uncaught.
KeyboardInterruptAt(p) ==
    IF p \in InnerTry THEN inner_KeyboardInterrupt
    ELSE IF p \in OuterTry THEN outer_KeyboardInterrupt
    ELSE [pc |-> "exited", exit |-> "uncaught_KeyboardInterrupt"]

\* The same for an Exception raised at p.
ExceptionAt(p) ==
    IF p \in InnerTry THEN inner_Exception
    ELSE IF p \in OuterTry THEN outer_Exception
    ELSE [pc |-> "exited", exit |-> "uncaught_Exception"]

Running == exitHow = "running"

\* connect_to_ipad(): a socket is created (id), settimeout(5), connect to
\* 127.0.0.1:IPAD_PORT; returns the socket, or None after timeout, refusal
\* or another error.  The failure paths print and return None; none of
\* them closes ipad_sock.
ConnectFaults == {"timeout", "refused", "error"}
connect_to_ipad(id, outcome) ==
    IF outcome = "ok"
    THEN [ret |-> id, created |-> {id}, closed |-> {},
          log |-> Log("Connected to iPad", IPAD_PORT, "")]
    ELSE [ret |-> 0, created |-> {id}, closed |-> {},
          log |-> Log(outcome, 0, "")]

\* line 202 with a connect that succeeds
ConnectOk ==
    /\ Running /\ pc = "connect" /\ attempts < MaxAttempts
    /\ LET r == connect_to_ipad(attempts + 1, "ok")
       IN /\ sock' = r.ret
          /\ openSocks' = (openSocks \cup r.created) \ r.closed
          /\ lastLog' = r.log
    /\ attempts' = attempts + 1
    /\ pc' = "start"
    /\ hist' = [hist EXCEPT !.connected = @ + 1, !.confirmed = 0, !.written = 0,
                            !.writeFailed = FALSE, !.slept = FALSE]
    /\ lastWrite' = NoWrite
    /\ lastSweep' = NoSweep
    /\ UNCHANGED <<sensor_reader, frame_num, temp_data, exitHow, call>>

NoRetrySleep == "connect"
GiveUp == "exited"
\* if sock is None: print, time.sleep(5), continue (204-207)
after_connect_none == "retry_sleep"

\* line 202 with a connect that fails: sock = None
ConnectFail ==
    /\ Running /\ pc = "connect" /\ attempts < MaxAttempts
    /\ \E outcome \in ConnectFaults :
           LET r == connect_to_ipad(attempts + 1, outcome)
           IN /\ sock' = r.ret
              /\ openSocks' = (openSocks \cup r.created) \ r.closed
              /\ lastLog' = r.log
    /\ attempts' = attempts + 1
    /\ pc' = after_connect_none
    /\ hist' = [hist EXCEPT !.failLogged = @ + 1, !.slept = FALSE]
    /\ UNCHANGED <<sensor_reader, frame_num, temp_data, lastWrite, lastSweep,
                   exitHow, call>>

\* time.sleep(5); continue (206-207)
RetrySleep ==
    /\ Running /\ pc = "retry_sleep"
    /\ pc' = "connect"
    /\ hist' = [hist EXCEPT !.retrySleeps = @ + 1, !.slept = TRUE]
    /\ UNCHANGED <<sensor_reader, sock, openSocks, attempts, frame_num,
                   temp_data, lastWrite, lastSweep, lastLog, exitHow, call>>

\* print, frame_num = 0 (209-212)
StartStreaming ==
    /\ Running /\ pc = "start"
    /\ frame_num' = 0
    /\ pc' = "cycle"
    /\ lastLog' = Log("Starting temperature streaming...", 0, "")
    /\ UNCHANGED <<sensor_reader, sock, openSocks, attempts, temp_data,
                   lastWrite, lastSweep, hist, exitHow, call>>

KeepStreaming == "frame_sleep"
\* else: print Failed after ..., break (226-228)
after_send_failure == "close"

\* status = "[LIVE]" if sensor_reader.hardware_available else "[SIM]" (224)
status_marker(self) == IF self.hardware_available THEN "[LIVE]" ELSE "[SIM]"

\* The data path of one pass (216-221): sample, then hand the snapshot to
\* send_peertalk_frame unless an exception left the sampler.
sample_and_send(self, env, now, io) ==
    LET s == read_temperature_data(self, env, now)
    IN [sweep |-> s,
        send |-> IF s.raised
                 THEN [ret |-> FALSE, called |-> FALSE, handed |-> <<>>,
                       delivered |-> <<>>]
                 ELSE send_peertalk_frame(FRAME_TYPE_TEMPERATURE,
                                          DictPayload(s.data), io)]

\* The driver answers main()'s sweeps see: all probes answer, or the first
\* CHT probe's get_temp raises.
MainEnvs == {e \in Envs : e.fail \subseteq {<<"cht", cht_channel_map[1]>>} /\ e.r = 0}

\* what time.time() answers main()'s sweeps
MainTimes == {1700000000}

\* the sensor_reader objects the constructor can leave
Readers == {SMTCReader_init(egt_ok, cht_ok) : egt_ok \in BOOLEAN, cht_ok \in BOOLEAN}

\* The data path of every pass main() can make, computed once: what
\* sample_and_send gives for each reader, driver answer, time and socket
\* behaviour.
MainPasses ==
    {[self |-> self, env |-> env, now |-> now, io |-> io,
      x |-> sample_and_send(self, env, now, io)] :
         self \in Readers, env \in MainEnvs, now \in MainTimes, io \in SendOutcomes}

\* lines 216-221 for one pass of main()
main_pass(self, env, now, io) ==
    (CHOOSE p \in MainPasses :
        p.self = self /\ p.env = env /\ p.now = now /\ p.io = io).x

\* One pass of the streaming loop's try body up to the sleep (216-228):
\* temp_data = read_temperature_data(); temp_data is a non-empty dict, so
\* `if temp_data` holds; frame_num += 1; send; report or break.
Cycle(env, now, io) ==
    \E x \in {main_pass(sensor_reader, env, now, io)} :
    LET s == x.sweep
        r == x.send
        n == frame_num + 1
    IN /\ lastSweep' = [fail |-> env.fail, trace |-> s.trace, called |-> s.called]
       /\ IF s.raised
          THEN /\ pc' = ExceptionAt("cycle").pc
               /\ exitHow' = ExceptionAt("cycle").exit
               /\ lastLog' = Log("Error in main loop", frame_num, "")
               /\ UNCHANGED <<temp_data, frame_num, lastWrite, hist>>
          ELSE /\ temp_data' = s.data
               /\ frame_num' = n
               /\ lastWrite' = IF r.called
                               THEN [sock |-> sock, handed |-> r.handed,
                                     delivered |-> r.delivered]
                               ELSE lastWrite
               /\ exitHow' = exitHow
               /\ IF r.ret
                  THEN /\ pc' = "frame_sleep"
                       /\ lastLog' = Log("Frame", n, status_marker(sensor_reader))
                       /\ hist' = [hist EXCEPT !.confirmed = @ + 1, !.written = @ + 1]
                  ELSE /\ pc' = after_send_failure
                       /\ lastLog' = Log("Failed after", n, "")
                       /\ hist' = [hist EXCEPT !.writeFailed = TRUE]

\* a cycle whose write goes through
CycleSent ==
    /\ Running /\ pc = "cycle" /\ frame_num < MaxFrames
    /\ \E env \in MainEnvs, now \in MainTimes :
           Cycle(env, now, [fail |-> FALSE, n |-> 0])
    /\ UNCHANGED <<sensor_reader, sock, openSocks, attempts, call>>

\* a cycle whose sendall raises after some of the bytes
CycleSendFailed ==
    /\ Running /\ pc = "cycle" /\ frame_num < MaxFrames
    /\ \E env \in MainEnvs, now \in MainTimes, io \in {o \in SendOutcomes : o.fail} :
           Cycle(env, now, io)
    /\ UNCHANGED <<sensor_reader, sock, openSocks, attempts, call>>

\* time.sleep(1) (230), then the next pass
FrameSleep ==
    /\ Running /\ pc = "frame_sleep"
    /\ pc' = "cycle"
    /\ hist' = [hist EXCEPT !.slept = TRUE]
    /\ UNCHANGED <<sensor_reader, sock, openSocks, attempts, frame_num,
                   temp_data, lastWrite, lastSweep, lastLog, exitHow, call>>

\* sock.close(); print Disconnected ... (239-240).  The descriptor is
\* released whether or not close() raises.
Close ==
    /\ Running /\ pc = "close"
    /\ openSocks' = openSocks \ {sock}
    /\ \E raises \in BOOLEAN :
           IF raises
           THEN /\ pc' = ExceptionAt("close").pc
                /\ exitHow' = ExceptionAt("close").exit
                /\ lastLog' = Log("Fatal error", 0, "")
                /\ hist' = [hist EXCEPT !.fatal = @ + 1]
           ELSE /\ pc' = "connect"
                /\ exitHow' = exitHow
                /\ lastLog' = Log("Disconnected from iPad", frame_num, "")
                /\ hist' = hist
    /\ UNCHANGED <<sensor_reader, sock, attempts, frame_num, temp_data,
                   lastWrite, lastSweep, call>>

\* time.sleep(5) of the outer handler (247), then the next pass of while True
FatalSleep ==
    /\ Running /\ pc = "fatal_sleep"
    /\ pc' = "connect"
    /\ hist' = [hist EXCEPT !.fatalSleeps = @ + 1, !.slept = TRUE]
    /\ UNCHANGED <<sensor_reader, sock, openSocks, attempts, frame_num,
                   temp_data, lastWrite, lastSweep, lastLog, exitHow, call>>

\* ------------------------------------------------------ KeyboardInterrupt
\* The interpreter raises KeyboardInterrupt in the main thread wherever
\* main() stands when SIGINT arrives; wrote counts a frame the interrupted
\* step had fully written.
Interrupted(p, wrote) ==
    /\ Running /\ pc = p /\ hist.intrs < MaxInterrupts
    /\ pc' = KeyboardInterruptAt(p).pc
    /\ exitHow' = KeyboardInterruptAt(p).exit
    /\ lastLog' = IF KeyboardInterruptAt(p).pc = "close"
                  THEN Log("Stopping...", 0, "")
                  ELSE IF KeyboardInterruptAt(p).exit = "sys_exit_0"
                  THEN Log("Shutting down...", 0, "")
                  ELSE lastLog
    /\ hist' = [hist EXCEPT !.intrs = @ + 1, !.written = @ + wrote,
                            !.sleepIntr = @ \/ p = "frame_sleep"]

\* inside connect_to_ipad: before the socket exists, or while connect()
\* blocks on a socket that is then left as it is
InterruptConnect ==
    /\ Interrupted("connect", 0)
    /\ \/ UNCHANGED <<attempts, openSocks>>
       \/ /\ attempts < MaxAttempts
          /\ attempts' = attempts + 1
          /\ openSocks' = openSocks \cup {attempts + 1}
    /\ UNCHANGED <<sensor_reader, sock, frame_num, temp_data, lastWrite,
                   lastSweep, call>>

\* during time.sleep(5) of line 206
InterruptRetrySleep ==
    /\ Interrupted("retry_sleep", 0)
    /\ UNCHANGED <<sensor_reader, sock, openSocks, attempts, frame_num,
                   temp_data, lastWrite, lastSweep, call>>

\* between the return of connect_to_ipad and the streaming loop's try
InterruptStart ==
    /\ Interrupted("start", 0)
    /\ UNCHANGED <<sensor_reader, sock, openSocks, attempts, frame_num,
                   temp_data, lastWrite, lastSweep, call>>

\* during read_temperature_data (the readers' except Exception does not
\* catch it): nothing of the cycle has happened
InterruptCycleRead ==
    /\ Interrupted("cycle", 0)
    /\ UNCHANGED <<sensor_reader, sock, openSocks, attempts, frame_num,
                   temp_data, lastWrite, lastSweep, call>>

\* during sendall (send_peertalk_frame's except Exception does not catch
\* it): the snapshot is taken, frame_num counted, part of the frame written
InterruptCycleSend ==
    /\ Interrupted("cycle", 0) /\ frame_num < MaxFrames
    /\ \E env \in MainEnvs, now \in MainTimes, io \in {o \in SendOutcomes : o.fail} :
       \E x \in {main_pass(sensor_reader, env, now, io)} :
       LET s == x.sweep
           r == x.send
       IN     /\ lastSweep' = [fail |-> env.fail, trace |-> s.trace, called |-> s.called]
              /\ temp_data' = s.data
              /\ frame_num' = frame_num + 1
              /\ lastWrite' = [sock |-> sock, handed |-> r.handed,
                               delivered |-> r.delivered]
    /\ UNCHANGED <<sensor_reader, sock, openSocks, attempts, call>>

\* after sendall returned, before the frame is reported (222-225): the
\* frame is written and counted, not confirmed
InterruptCycleReport ==
    /\ Interrupted("cycle", 1) /\ frame_num < MaxFrames
    /\ \E env \in MainEnvs, now \in MainTimes :
       \E x \in {main_pass(sensor_reader, env, now, [fail |-> FALSE, n |-> 0])} :
              /\ lastSweep' = [fail |-> env.fail, trace |-> x.sweep.trace,
                               called |-> x.sweep.called]
              /\ temp_data' = x.sweep.data
              /\ frame_num' = frame_num + 1
              /\ lastWrite' = [sock |-> sock, handed |-> x.send.handed,
                               delivered |-> x.send.delivered]
    /\ UNCHANGED <<sensor_reader, sock, openSocks, attempts, call>>

\* during time.sleep(1) of line 230
InterruptFrameSleep ==
    /\ Interrupted("frame_sleep", 0)
    /\ UNCHANGED <<sensor_reader, sock, openSocks, attempts, frame_num,
                   temp_data, lastWrite, lastSweep, call>>

\* at line 239 before close() took effect, or at line 240 after it
InterruptClose ==
    /\ Interrupted("close", 0)
    /\ \/ UNCHANGED openSocks
       \/ openSocks' = openSocks \ {sock}
    /\ UNCHANGED <<sensor_reader, sock, attempts, frame_num, temp_data,
                   lastWrite, lastSweep, call>>

\* during time.sleep(5) of line 247, inside the outer handler
InterruptFatalSleep ==
    /\ Interrupted("fatal_sleep", 0)
    /\ UNCHANGED <<sensor_reader, sock, openSocks, attempts, frame_num,
                   temp_data, lastWrite, lastSweep, call>>

\* The interpreter finalizes the socket objects nothing refers to any more
\* (the ipad_sock of a connect_to_ipad that returned None) and so closes
\* them; the language does not say when.
Finalize ==
    /\ Running
    /\ openSocks \ {sock} # {}
    /\ openSocks' = openSocks \cap {sock}
    /\ UNCHANGED <<sensor_reader, pc, sock, attempts, frame_num, temp_data,
                   lastWrite, lastSweep, lastLog, hist, exitHow, call>>

Next ==
    \/ ConnectOk \/ ConnectFail \/ RetrySleep \/ StartStreaming
    \/ CycleSent \/ CycleSendFailed \/ FrameSleep \/ Close \/ FatalSleep
    \/ InterruptConnect \/ InterruptRetrySleep \/ InterruptStart
    \/ InterruptCycleRead \/ InterruptCycleSend \/ InterruptCycleReport
    \/ InterruptFrameSleep
    \/ InterruptClose \/ InterruptFatalSleep
    \/ Finalize

Spec == Init /\ [][Next]_vars

\* ------------------------------------------------- main() left undisturbed
\* The statements of main(): the interpreter runs the statement main()
\* stands at, and connect (settimeout(5)), sendall and time.sleep return.
MainStep ==
    \/ ConnectOk \/ ConnectFail \/ RetrySleep \/ StartStreaming
    \/ CycleSent \/ CycleSendFailed \/ FrameSleep \/ Close \/ FatalSleep

\* main() when no SIGINT is delivered
NextUninterrupted == MainStep \/ Finalize

SpecUninterrupted ==
    Init /\ [][NextUninterrupted]_vars /\ WF_vars(MainStep)

\* ----------------------------------------------- direct calls (data path)
\* the sampler and the encoder as one streaming pass uses them, under every
\* driver answer
SampleTimes == {0, 1700000000}
SamplerCall ==
    /\ call = NoCall
    /\ \E env \in Envs, now \in SampleTimes, io \in SendOutcomes :
       \E x \in {sample_and_send(sensor_reader, env, now, io)} :
           call' = [fn |-> "cycle", env |-> env, now |-> now,
                    sweep |-> x.sweep, send |-> x.send]
    /\ UNCHANGED <<sensor_reader, mainVars>>

SpecSampler == Init /\ [][SamplerCall]_vars

\* ------------------------------------------------------------- properties
\* helpers of the properties: reading a frame back
\* the unsigned 32-bit big-endian integer at byte offset off of d
U32(d, off) ==
    d[off + 1] * 16777216 + d[off + 2] * 65536 + d[off + 3] * 256 + d[off + 4]

\* the number of items of the k-th (1 or 2) JSON array of payload b
ArrayItems(b, k) ==
    LET opens == {i \in DOMAIN b : b[i] = 91}
        closes == {i \in DOMAIN b : b[i] = 93}
        o == IF k = 1 THEN CHOOSE i \in opens : \A j \in opens : i <= j
                      ELSE CHOOSE i \in opens : \A j \in opens : i >= j
        c == IF k = 1 THEN CHOOSE i \in closes : \A j \in closes : i <= j
                      ELSE CHOOSE i \in closes : \A j \in closes : i >= j
    IN IF c = o + 1 THEN 0
       ELSE Cardinality({i \in (o + 1)..(c - 1) : b[i] = 44}) + 1

AllProbesInOrder ==
    [i \in 1..(2 * NumProbes) |->
        IF i <= NumProbes THEN <<"cht", i - 1>> ELSE <<"egt", i - 1 - NumProbes>>]

\* the handle, the channel of probe i - 1, and the get_temp faults a sweep
\* runs into
HandleOf(self, fam) == IF fam = "cht" THEN self.cht_sensor ELSE self.egt_sensor
ChannelOf(fam, i) == IF fam = "cht" THEN cht_channel_map[i] ELSE egt_channel_map[i]
FaultsHit(self, env) == {f \in env.fail : HandleOf(self, f[1])}

\* C1: once a KeyboardInterrupt has been delivered during the inter-frame
\* sleep, main() only closes the Connection and exits: it is never again at
\* a connect attempt, a retry or a streaming pass, and it exits with the
\* Connection closed.
C1_SleepInterruptShutsDown ==
    hist.sleepIntr =>
        /\ pc \in {"close", "exited"}
        /\ pc = "exited" => sock \notin openSocks

\* C2: after the write of the k-th send_peertalk_frame call on a Connection
\* failed (k = frame_num), exactly k - 1 frames were confirmed on it, main()
\* is not at a streaming pass on it again, and once past sock.close() the
\* Connection is closed and main() is back at connecting (unless an
\* interrupt ended the process).
C2_WriteFailureEndsConnection ==
    (hist.writeFailed /\ Running) =>
        /\ hist.confirmed = frame_num - 1
        /\ hist.written = frame_num - 1
        /\ pc \in {"close", "connect", "retry_sleep", "fatal_sleep"}
        /\ pc # "close" => sock \notin openSocks

C2_Witness ==
    /\ hist.writeFailed /\ frame_num = 2 /\ hist.confirmed = 1
    /\ pc = "connect" /\ sock \notin openSocks

\* C3: while main() runs, every connect_to_ipad call but the successful ones
\* has logged a failure, every logged failure has had its 5-second sleep
\* (the latest is being slept at "retry_sleep"), and before the first
\* success no snapshot was taken and nothing was written; so streaming
\* begins after attempt N with N - 1 failures logged and N - 1 sleeps.
C3_FailuresBeforeStreaming ==
    Running =>
        /\ hist.failLogged = attempts - hist.connected
        /\ hist.retrySleeps = hist.failLogged - (IF pc = "retry_sleep" THEN 1 ELSE 0)
        /\ hist.connected = 0 =>
               (lastWrite = NoWrite /\ temp_data = NoData /\ frame_num = 0)
        /\ (pc = "start" /\ hist.connected = 1) =>
               (hist.failLogged = attempts - 1 /\ hist.retrySleeps = attempts - 1)

C3_Witness ==
    /\ pc = "start" /\ hist.connected = 1 /\ attempts = 3
    /\ hist.failLogged = 2 /\ hist.retrySleeps = 2 /\ lastWrite = NoWrite

\* C4: the process has exited only if a KeyboardInterrupt was delivered: no
\* connect fault, write fault or exception of sock.close() ends it; while it
\* runs, every connect fault has had its 5-second sleep and every exception
\* that reached the outer handler its 5-second pause (the latest is being
\* slept), after which main() is at a connect attempt again.
C4_ExitOnlyOnInterrupt ==
    /\ pc = "exited" <=> ~Running
    /\ pc = "exited" =>
           (hist.intrs > 0 /\ exitHow \in {"sys_exit_0", "uncaught_KeyboardInterrupt"})
    /\ Running =>
           /\ hist.fatalSleeps = hist.fatal - (IF pc = "fatal_sleep" THEN 1 ELSE 0)
           /\ hist.retrySleeps = hist.failLogged - (IF pc = "retry_sleep" THEN 1 ELSE 0)

C4_Witness ==
    /\ Running /\ pc = "connect" /\ hist.intrs = 0
    /\ hist.failLogged > 0 /\ hist.writeFailed /\ hist.fatal > 0
    /\ hist.fatalSleeps = hist.fatal

\* C5: whenever the process has ended, it ended through sys.exit(0).
C5_InterruptExitIsOrderly ==
    pc = "exited" => exitHow = "sys_exit_0"

\* C6: a direct reader call with a probe index outside 0..5 returns 0.0 and
\* does not raise, whether or not the family's handle exists.
C6_OutOfRangeIsZero ==
    (call.fn \in Families /\ (call.probe_id < 0 \/ call.probe_id >= NumProbes)) =>
        (~call.res.raised /\ call.res.val = 0)

\* C7: every pass samples all probes: no exception leaves the sampler, the
\* snapshot holds 6 CHT and 6 EGT readings read in the order cht 0..5,
\* egt 0..5, and the payload of the frame handed to the socket, read back,
\* holds 6 and 6 items.
C7_SnapshotComplete ==
    call.fn = "cycle" =>
        /\ ~call.sweep.raised
        /\ Len(call.sweep.data.cht) = 6 /\ Len(call.sweep.data.egt) = 6
        /\ SubSeq(call.sweep.trace, 1, 2 * NumProbes) = AllProbesInOrder
        /\ call.send.called
        /\ LET payload == SubSeq(call.send.handed, 17, Len(call.send.handed))
           IN ArrayItems(payload, 1) = 6 /\ ArrayItems(payload, 2) = 6

C7_Witness ==
    /\ call.fn = "cycle" /\ call.send.ret
    /\ sensor_reader.cht_sensor /\ ~sensor_reader.egt_sensor
    /\ call.env.fail = {<<"cht", 4>>}

\* C8: what send_peertalk_frame hands to sendall is 16 header bytes, read
\* back big-endian as (1, frame_type, 0, payloadSize), followed by the
\* payload, and payloadSize is the payload's length.
C8_FrameLayout ==
    (call.fn = "send_peertalk_frame" /\ call.res.called) =>
        LET d == call.res.handed
        IN /\ Len(d) = 16 + Len(call.payload_bytes)
           /\ U32(d, 0) = 1
           /\ U32(d, 4) = call.frame_type
           /\ U32(d, 8) = 0
           /\ U32(d, 12) = Len(call.payload_bytes)
           /\ SubSeq(d, 17, Len(d)) = call.payload_bytes

C8_Witness ==
    /\ call.fn = "send_peertalk_frame" /\ call.res.called
    /\ call.payload_bytes = <<>> /\ call.frame_type = 16777473

\* C9: at most one socket is open.
C9_AtMostOneSocketOpen ==
    Cardinality(openSocks) <= 1

\* C10: in a pass where get_temp raised for some probes of existing
\* handles, no exception leaves the sampler, exactly those probes read 0.0,
\* every other probe of an existing handle was asked and reads the
\* converted hardware value, and the snapshot is handed to the socket.
C10_FaultIsLocal ==
    (call.fn = "cycle" /\ FaultsHit(sensor_reader, call.env) # {}) =>
        /\ ~call.sweep.raised
        /\ Len(call.sweep.trace) = 2 * NumProbes + 1
        /\ \A fam \in Families : \A i \in 1..NumProbes :
               HandleOf(sensor_reader, fam) =>
                   /\ <<fam, ChannelOf(fam, i)>> \in call.sweep.called
                   /\ i \in DOMAIN call.sweep.data[fam]
                   /\ call.sweep.data[fam][i] =
                          IF <<fam, ChannelOf(fam, i)>> \in call.env.fail
                          THEN 0 ELSE CtoF(call.env.temp_c)
        /\ call.send.called
        /\ SubSeq(call.send.handed, 17, Len(call.send.handed))
               = json_dumps(call.sweep.data)

C10_Witness ==
    /\ call.fn = "cycle" /\ call.send.ret
    /\ sensor_reader.cht_sensor /\ sensor_reader.egt_sensor
    /\ call.env.fail = {<<"cht", 1>>} /\ call.env.temp_c = 100
    /\ call.sweep.data.cht = <<0, 212, 212, 212, 212, 212>>
    /\ call.sweep.data.egt = <<212, 212, 212, 212, 212, 212>>

\* C11: a direct reader call with a probe index in 0..5: when the family's
\* handle is absent the reading is simulated, inside [300, 400] for CHT and
\* [1200, 1500] for EGT, and get_temp is not called, whatever the other
\* family's handle; when the handle exists get_temp is called for the
\* probe's channel and the reading is the converted answer or 0.0.
C11_FallbackPerFamily ==
    (call.fn \in Families /\ call.probe_id \in 0..(NumProbes - 1)) =>
        /\ ~call.res.raised
        /\ IF HandleOf(sensor_reader, call.fn)
           THEN /\ call.res.calls = <<ChannelOf(call.fn, call.probe_id + 1)>>
                /\ call.res.val =
                       IF <<call.fn, ChannelOf(call.fn, call.probe_id + 1)>>
                              \in call.env.fail
                       THEN 0 ELSE CtoF(call.env.temp_c)
           ELSE /\ call.res.calls = <<>>
                /\ IF call.fn = "cht"
                   THEN call.res.val >= 300 /\ call.res.val <= 400
                   ELSE call.res.val >= 1200 /\ call.res.val <= 1500

C11_Witness ==
    /\ call.fn = "cht" /\ call.probe_id = 5
    /\ ~sensor_reader.cht_sensor /\ sensor_reader.egt_sensor
    /\ call.env.fail = {<<"cht", 8>>}
    /\ call.res.val = 400 /\ call.res.calls = <<>>

\* C12: every count main() prints (the per-frame confirmation, "Failed
\* after N frames", "Disconnected ... sent N frames total") is the number of
\* frames fully written on the Connection in use, and streaming starts from
\* a count of zero.
C12_ReportedCountIsWritten ==
    /\ lastLog.msg = "Starting temperature streaming..." => frame_num = 0
    /\ lastLog.msg \in {"Frame", "Failed after", "Disconnected from iPad"} =>
           lastLog.n = hist.written

\* C13: when the process has exited, the Connection main() holds is closed.
C13_ExitClosesConnection ==
    (pc = "exited" /\ sock # 0) => sock \notin openSocks

\* C14: in a sweep the capture timestamp is taken before the first probe is
\* read: time.time() is the first call of the sweep.
C14_TimestampFirst ==
    call.fn = "cycle" => call.sweep.trace[1] = <<"time", 0>>

\* C18: without any interrupt, main() is about to call connect_to_ipad
\* again only after a time.sleep has returned since the previous call.
C18_DelayBetweenAttempts ==
    (Running /\ pc = "connect" /\ attempts > 0 /\ hist.intrs = 0) => hist.slept

\* C19: a confirmed frame is marked [LIVE] exactly when none of its readings
\* is simulated, that is when both handles exist, and [SIM] otherwise.
C19_MarkerTellsSimulation ==
    lastLog.msg = "Frame" =>
        /\ lastLog.status \in {"[LIVE]", "[SIM]"}
        /\ lastLog.status = "[LIVE]" <=>
              (sensor_reader.cht_sensor /\ sensor_reader.egt_sensor)

\* C15: when at least one handle exists, the constructor attempts
\* set_sensor_type for every channel 1..8 on every handle that exists; a
\* call that raises is logged for its channel and keeps no other call from
\* being attempted, and the constructor returns.
C15_EveryPairAttempted ==
    (call.fn = "__init__" /\ sensor_reader.hardware_available) =>
        /\ call.res.returned
        /\ \A fam \in Families, ch \in ConfigChannels :
               HandleOf(sensor_reader, fam) =>
                   /\ <<fam, ch>> \in call.res.attempted
                   /\ <<fam, ch>> \in call.cfg => ch \in call.res.logged

\* C16: without an interrupt main() never ends; while no connect has
\* succeeded nothing is written and every failure has its 5-second sleep;
\* every failed connect is followed, after that sleep has returned, by
\* main() standing at connect_to_ipad again; and once a Connection is
\* established a frame is written on it or a write on it fails.
C16_RetriesForever ==
    /\ [](Running /\ pc # "exited")
    /\ [](hist.connected = 0 =>
             /\ lastWrite = NoWrite /\ hist.written = 0
             /\ hist.failLogged = attempts
             /\ hist.retrySleeps =
                    hist.failLogged - (IF pc = "retry_sleep" THEN 1 ELSE 0))
    /\ [](lastLog.msg \in ConnectFaults => <>(pc = "connect" /\ hist.slept))
    /\ [](pc = "start" => <>(hist.written > 0 \/ hist.writeFailed))

C16_Witness ==
    /\ Running /\ pc = "connect" /\ hist.connected = 0
    /\ attempts = MaxAttempts /\ hist.failLogged = MaxAttempts
    /\ hist.retrySleeps = MaxAttempts /\ hist.slept
    /\ lastWrite = NoWrite

\* C17: on one Connection every sendall is handed one complete frame (the
\* 16-byte header, then exactly payloadSize bytes) encoding the snapshot of
\* the same pass; what reached the socket is a prefix of it; every frame
\* before the latest was written whole; and once a write was failed or
\* partial main() does not stand inside the streaming loop any more: the
\* next thing that happens to the Connection is its close.
C17_StreamIntegrity ==
    lastWrite # NoWrite =>
        LET h == lastWrite.handed
            d == lastWrite.delivered
        IN /\ Len(h) >= 16
           /\ U32(h, 0) = PTPROTOCOL_VERSION
           /\ U32(h, 4) = FRAME_TYPE_TEMPERATURE
           /\ U32(h, 12) = Len(h) - 16
           /\ SubSeq(h, 17, Len(h)) = json_dumps(temp_data)
           /\ Len(d) <= Len(h) /\ d = SubSeq(h, 1, Len(d))
           /\ hist.written = frame_num - (IF d = h THEN 0 ELSE 1)
           /\ (d # h /\ Running) => pc \notin {"start", "cycle", "frame_sleep"}

C17_Witness ==
    /\ lastWrite.sock = sock /\ sock \notin openSocks
    /\ Len(lastWrite.delivered) = 20
    /\ lastWrite.delivered # lastWrite.handed
    /\ frame_num = 2 /\ hist.written = 1 /\ pc = "connect"
====
